---- MODULE Spec2Model ----
(***************************************************************************)
(* A model of src/index.js: colour clustering, marker geometry, heading    *)
(* computation, and the page's event handlers (video, image, pointer,      *)
(* tolerance input, animation-frame loop).                                 *)
(*                                                                         *)
(* Numbers.  JavaScript doubles are modelled in fixed point:               *)
(*   - coordinates are integer pixels;                                     *)
(*   - distances (Math.hypot) are integers in 1/100 pixel, rounded down;   *)
(*   - angles are integers in 1/1000 degree (Math.atan2 times 180/PI);     *)
(*   - tolerances are integers in 1/100, or NaN.                           *)
(***************************************************************************)
EXTENDS Integers, Sequences, FiniteSets, TLC

VARIABLES
    \* ---- tolerance input and pointer (lines 11-20, 340-353)
    storage,      \* localStorage item "intervallToleranceInput" (NullItem if absent)
    tolInput,     \* intervallToleranceInput.value
    mousePos,     \* mousePos
    pointerSeen,  \* history: a mousemove or touchmove has been handled
    \* ---- one processFrame pass (lines 207-275)
    rafQueue,     \* processFrame callbacks registered with requestAnimationFrame
    dots,         \* local dots of the last pass
    evaluated,    \* history: which geometry checks the last pass evaluated
    tolerance,    \* local tolerance of checkEqualIntervals in the last pass
    heading,      \* locals middleFront and rotation of the last pass
    coordsText,   \* coordsDisplay.textContent
    angleText,    \* angleDisplay.textContent
    ran,          \* history: processFrame has run at least once
    \* ---- computeRotation as a pure function
    rotIn, rotOut, rotPc,
    \* ---- clusterColor as a pure function (lines 53-75)
    imageData,    \* the pixel buffer: width, height, data
    testFunc,     \* the colour predicate passed in
    clusters,     \* local clusters after the scan
    centroid,     \* the value returned
    clusterPc,
    \* ---- video, image and canvas handling (lines 190-215, 279-363)
    useVideo,
    videoStream,     \* 0 for null, else the number of the stream held
    tracks,          \* per stream acquired, "live" or "ended"
    srcObject,       \* video.srcObject: 0 for null, else a stream number
    pendingGUM,      \* getUserMedia promises not yet settled
    metaListeners,   \* loadedmetadata listeners added to the video element
    readyState,      \* of the video element: "nothing", "metadata", "data"
    videoFrame,      \* the picture the video element currently shows
    loading,         \* images whose src is set and that have not loaded yet
    selectedImage,
    canvas,          \* the canvas bitmap, a row of regions
    frameBuffer,     \* what getImageData returned in the latest pass
    statusText,
    stopHandled      \* the latest of start click / stopVideo() was stopVideo()

frameVars == <<storage, tolInput, mousePos, pointerSeen, rafQueue, dots,
               evaluated, tolerance, heading, coordsText, angleText, ran>>
rotVars == <<rotIn, rotOut, rotPc>>
clusterVars == <<imageData, testFunc, clusters, centroid, clusterPc>>
appVars ==
    <<useVideo, videoStream, tracks, srcObject, pendingGUM, metaListeners,
      readyState, videoFrame, loading, selectedImage, canvas, frameBuffer,
      statusText, stopHandled>>
vars == <<frameVars, rotVars, clusterVars, appVars>>

(***************************************************************************)
(* Numeric helpers                                                         *)
(***************************************************************************)
Abs(n) == IF n < 0 THEN -n ELSE n

\* Largest r in lo..hi with r*r <= n (lo*lo <= n assumed).
RECURSIVE ISqrtIn(_, _, _)
ISqrtIn(n, lo, hi) ==
    IF lo >= hi THEN lo
    ELSE LET mid == (lo + hi + 1) \div 2
         IN IF mid * mid <= n THEN ISqrtIn(n, mid, hi) ELSE ISqrtIn(n, lo, mid - 1)

\* Fixed-point scale of distances and tolerances (hundredths).
Centi == 10 * 10

\* An optional point: a centroid, or null.
Some(x, y) == [some |-> TRUE, x |-> x, y |-> y]
None == [some |-> FALSE, x |-> 0, y |-> 0]

\* The centroids detectDots returns in the model.  Coordinates are even, so the
\* halving of lines 231-232 is exact.
MarkerPoints == {Some(100, 0), Some(100, 60), Some(100, 166), Some(160, 60)}

\* Square roots of the squared distances between those centroids, evaluated once.
SquaredDistances ==
    {Centi * Centi * ((p.x - q.x) * (p.x - q.x) + (p.y - q.y) * (p.y - q.y)) :
        p \in MarkerPoints, q \in MarkerPoints}
ISqrtKnown == [n \in SquaredDistances |-> ISqrtIn(n, 0, 46340)]

\* floor(sqrt(n)) for 0 <= n < 2^31.
ISqrt(n) == IF n \in SquaredDistances THEN ISqrtKnown[n] ELSE ISqrtIn(n, 0, 46340)

\* Math.hypot(p1.x - p2.x, p1.y - p2.y), in 1/100 pixel.
distance(p1, p2) ==
    ISqrt(Centi * Centi * ((p1.x - p2.x) * (p1.x - p2.x) + (p1.y - p2.y) * (p1.y - p2.y)))

\* atan(p/q) in 1/1000 degree for 0 <= p <= q, q > 0: exact at p = 0 and p = q,
\* within 0.1 degree in between.
AtanFrac(p, q) ==
    LET t == (p * 1000) \div q
    IN 45 * t + (((t * (1000 - t)) \div 100) * (14020 + (3799 * t) \div 1000)) \div 10000

\* Math.atan2(dy, dx) * (180 / Math.PI) in 1/1000 degree, in (-180000, 180000].
\* A difference of two equal doubles is +0, so atan2(0, dx < 0) is +180.
Atan2Deg(dy, dx) ==
    LET ax == Abs(dx)
        ay == Abs(dy)
        a  == IF ax = 0 /\ ay = 0 THEN 0
              ELSE IF ay <= ax THEN AtanFrac(ay, ax)
              ELSE 90000 - AtanFrac(ax, ay)
    IN IF dx > 0 THEN (IF dy >= 0 THEN a ELSE -a)
       ELSE IF dx < 0 THEN (IF dy >= 0 THEN 180000 - a ELSE a - 180000)
       ELSE (IF dy > 0 THEN 90000 ELSE IF dy < 0 THEN -90000 ELSE 0)

(***************************************************************************)
(* Geometry checks (lines 93-132)                                          *)
(***************************************************************************)
COLLINEARITY_THRESHOLD == 50
intervallTolerance == 80

\* Perpendicular distance from p to the line through p1 and p2, in 1/100 pixel.
pointLineDistance(p, p1, p2) ==
    LET num == Abs((p2.y - p1.y) * p.x - (p2.x - p1.x) * p.y + p2.x * p1.y - p2.y * p1.x)
        den == distance(p1, p2)
    IN IF den = 0 THEN 0 ELSE (num * Centi * Centi) \div den

isCollinear(p1, mid, p2, threshold) ==
    pointLineDistance(mid, p1, p2) < threshold * Centi

\* checkOrder with the sign of dPG slipped.
checkOrder_SignSlip(red, pink, green, tol) ==
    LET dRP == distance(red, pink)
        dPG == distance(pink, green)
        dRG == distance(red, green)
    IN Abs(dRP - dPG - dRG) < tol * Centi

checkOrder(red, pink, green, tol) ==
    LET dRP == distance(red, pink)
        dPG == distance(pink, green)
        dRG == distance(red, green)
    IN Abs(dRP + dPG - dRG) < tol * Centi

\* A JavaScript number: a value in hundredths, or NaN.
Num(v) == [nan |-> FALSE, v |-> v]
NaN == [nan |-> TRUE, v |-> 0]

\* parseFloat of the strings the model uses (null is converted to "null" first).
NullItem == "<null>"
ToleranceStrings == {"", "abc", "0.1", "0.8"}
parseFloat(s) ==
    CASE s = "0"   -> Num(0)
      [] s = "0.1" -> Num(10)
      [] s = "0.7" -> Num(70)
      [] s = "0.8" -> Num(80)
      [] OTHER     -> NaN

\* String(n) for the numbers parseFloat can return.
NumberToString(n) ==
    CASE n.nan    -> "NaN"
      [] n.v = 0  -> "0"
      [] n.v = 10 -> "0.1"
      [] n.v = 70 -> "0.7"
      [] n.v = 80 -> "0.8"

\* a || b on numbers: NaN and 0 are falsy.
OrElse(a, b) == IF a.nan \/ a.v = 0 THEN b ELSE a

\* a ?? b: only null and undefined fall through, and parseFloat returns neither.
IsNullish(a) == FALSE
NullishCoalesce(a, b) == IF IsNullish(a) THEN b ELSE a

\* The tolerance checkEqualIntervals reads (lines 120-121).
readTolerance(inputValue) ==
    NullishCoalesce(parseFloat(inputValue), Num(intervallTolerance))

\* Lines 123-131 for the three distances and tolerance tol; every comparison
\* with NaN is false.
withinIntervals(dRP, dPG, dRG, tol) ==
    /\ ~tol.nan
    /\ dPG * Centi > dRP * (Centi - tol.v)
    /\ dPG * Centi < dRP * (Centi + tol.v)
    /\ dRG * Centi > dRP * (Centi - tol.v) * 2
    /\ dRG * Centi < dRP * (Centi + tol.v) * 2

\* Lines 116-131 with tolerance tol.
equalIntervalsWith(red, pink, green, tol) ==
    withinIntervals(distance(red, pink), distance(pink, green), distance(red, green), tol)

checkEqualIntervals(red, pink, green, inputValue) ==
    equalIntervalsWith(red, pink, green, readTolerance(inputValue))

(***************************************************************************)
(* computeRotation (lines 135-142), in 1/1000 degree                       *)
(***************************************************************************)
rawRotation(middle, red, mouse) ==
    LET currentAngle == Atan2Deg(red.y - middle.y, red.x - middle.x)
        targetAngle  == Atan2Deg(mouse.y - middle.y, mouse.x - middle.x)
    IN targetAngle - currentAngle

computeRotation_NoWrapAtMinus180(middle, red, mouse) ==
    LET r0 == rawRotation(middle, red, mouse)
        r1 == IF r0 > 180000 THEN r0 - 360000 ELSE r0
    IN IF r1 < -180000 THEN r1 + 360000 ELSE r1

computeRotation(middle, red, mouse) ==
    LET r0 == rawRotation(middle, red, mouse)
        r1 == IF r0 > 180000 THEN r0 - 360000 ELSE r0
    IN IF r1 <= -180000 THEN r1 + 360000 ELSE r1

(***************************************************************************)
(* Optional points and the state the page starts in (lines 13-21)          *)
(***************************************************************************)
NoChecks == [collinear |-> FALSE, order |-> FALSE, intervals |-> FALSE]
NoHeading == [computed |-> FALSE, middle |-> [x |-> 0, y |-> 0], rotation |-> 0]
NoText == [kind |-> "", dir |-> "", factor |-> 0]
NoAngle == [shown |-> FALSE, centi |-> 0]

\* Lines 13-20 for a given persisted item, before any pass has run.
PageLoaded(item) ==
    /\ storage = item
    /\ tolInput = NumberToString(OrElse(parseFloat(item), Num(70)))
    /\ mousePos = [x |-> 0, y |-> 0]
    /\ pointerSeen = FALSE
    /\ rafQueue = 0
    /\ dots = [red |-> None, pink |-> None, green |-> None]
    /\ evaluated = NoChecks
    /\ tolerance = NaN
    /\ heading = NoHeading
    /\ coordsText = NoText
    /\ angleText = NoAngle
    /\ ran = FALSE

RotIdle ==
    /\ rotIn = [middle |-> [x |-> 0, y |-> 0], red |-> [x |-> 0, y |-> 0],
                mouse |-> [x |-> 0, y |-> 0]]
    /\ rotOut = 0
    /\ rotPc = "idle"

ClusterIdle ==
    /\ imageData = [width |-> 0, height |-> 0, data |-> <<>>]
    /\ testFunc = "isRed"
    /\ clusters = <<>>
    /\ centroid = [some |-> FALSE, sumX |-> 0, sumY |-> 0, count |-> 1]
    /\ clusterPc = "idle"

\* A canvas region holding one colour; overlay tells a region painted by
\* drawCircle from one painted by drawImage.
Cell(colour, overlay) == [colour |-> colour, overlay |-> overlay]
BlackColour == [r |-> 0, g |-> 0, b |-> 0]

\* Lines 191-194: setting the width or height clears the bitmap.
resizeCanvas(width) == [i \in 1..width |-> Cell(BlackColour, FALSE)]

\* The pictures: rows of regions, one colour each.
MarkerRed == [r |-> 220, g |-> 40, b |-> 40]
MarkerPink == [r |-> 230, g |-> 60, b |-> 150]
MarkerGreen == [r |-> 40, g |-> 200, b |-> 60]
\* ./test-images/working.jpeg (line 334).
DefaultPicture == <<MarkerRed, MarkerPink, MarkerGreen>>
\* The files the user may select (line 309).
FilePictures == {<<MarkerRed>>, <<BlackColour, MarkerRed>>}
\* The frames the camera may deliver.
VideoPictures == {<<BlackColour, BlackColour>>, <<BlackColour, MarkerRed>>}
\* video.videoWidth, in regions.
VideoWidth == 2
\* The canvas before any resize, in regions.
InitialCanvasWidth == 1

NoImage == [some |-> FALSE, picture |-> <<>>]

\* Lines 1-26 and 363: the globals after the script has run; start() has set
\* the src of the default image, which has not loaded yet.
ScriptLoaded ==
    /\ useVideo = FALSE
    /\ videoStream = 0
    /\ tracks = <<>>
    /\ srcObject = 0
    /\ pendingGUM = 0
    /\ metaListeners = 0
    /\ readyState = "nothing"
    /\ videoFrame = <<BlackColour, BlackColour>>
    /\ loading = <<DefaultPicture>>
    /\ selectedImage = NoImage
    /\ canvas = resizeCanvas(InitialCanvasWidth)
    /\ frameBuffer = <<>>
    /\ statusText = ""
    /\ stopHandled = FALSE

(***************************************************************************)
(* SpecRotation: computeRotation applied to every pivot, red point and     *)
(* target of a small grid.                                                 *)
(***************************************************************************)
GridMax == 2
GridPoints == [x : -GridMax..GridMax, y : -GridMax..GridMax]

InitRotation ==
    /\ PageLoaded(NullItem)
    /\ rotIn \in [middle : GridPoints, red : GridPoints, mouse : GridPoints]
    /\ rotOut = 0
    /\ rotPc = "in"
    /\ ClusterIdle
    /\ ScriptLoaded

applyComputeRotation ==
    /\ rotPc = "in"
    /\ rotOut' = computeRotation(rotIn.middle, rotIn.red, rotIn.mouse)
    /\ rotPc' = "done"
    /\ UNCHANGED <<rotIn, frameVars, clusterVars, appVars>>

NextRotation == applyComputeRotation

SpecRotation == InitRotation /\ [][NextRotation]_vars

\* C2: computeRotation returns a value in (-180, 180]; a raw difference above
\* 180 is reduced by 360, one at or below -180 is raised by 360, anything else is
\* returned as is (so 180 stays 180 and -180 becomes 180), one correction at most.
C2_RotationNormalized ==
    rotPc = "done" =>
        LET raw == rawRotation(rotIn.middle, rotIn.red, rotIn.mouse)
        IN /\ rotOut > -180000
           /\ rotOut <= 180000
           /\ (raw > 180000 => rotOut = raw - 360000)
           /\ (raw <= -180000 => rotOut = raw + 360000)
           /\ (raw > -180000 /\ raw <= 180000 => rotOut = raw)

\* A raw difference of exactly -180 degrees has been normalised to 180.
C2_Witness ==
    /\ rotPc = "done"
    /\ rawRotation(rotIn.middle, rotIn.red, rotIn.mouse) = -180000
    /\ rotOut = 180000

\* Further cases of C2 that are reached: a raw difference above 180.
C2_WitnessAbove ==
    /\ rotPc = "done"
    /\ rawRotation(rotIn.middle, rotIn.red, rotIn.mouse) > 180000

(***************************************************************************)
(* processFrame from line 217 on: validation, heading, texts, rescheduling *)
(***************************************************************************)
NotAllDotsText == [kind |-> "Not all dots detected.", dir |-> "", factor |-> 0]
GeometryFailText ==
    [kind |-> "Detected points are not collinear or in the correct order.",
     dir |-> "", factor |-> 0]

\* Line 217: a centroid is an object (truthy) or null.
allDetected(d) == d.red.some /\ d.pink.some /\ d.green.some

\* Lines 230-232: pink moved half way towards red.
middleOf(d) ==
    [x |-> d.pink.x + (d.red.x - d.pink.x) \div 2,
     y |-> d.pink.y + (d.red.y - d.pink.y) \div 2]

\* Line 237: mousePos.x and mousePos.y are numbers from line 20 on, never null.
mouseIsNull(m) == FALSE

\* Math.round(n / d) for n >= 0, d > 0: halves round up.
RoundDiv(n, d) == (2 * n + d) \div (2 * d)

\* Lines 246-258: the steering text for a rotation in 1/1000 degree.
steering_RightAtZero(rotation) ==
    IF Abs(rotation) < 90000
    THEN [kind |-> "rotate", dir |-> IF rotation >= 0 THEN "right" ELSE "left",
          factor |-> RoundDiv(Abs(rotation) * 100, 180000)]
    ELSE [kind |-> "turn and then rotate",
          dir |-> IF rotation >= 0 THEN "right" ELSE "left",
          factor |-> RoundDiv((Abs(rotation) - 90000) * 100, 180000)]

steering(rotation) ==
    IF Abs(rotation) < 90000
    THEN [kind |-> "rotate", dir |-> IF rotation > 0 THEN "right" ELSE "left",
          factor |-> RoundDiv(Abs(rotation) * 100, 180000)]
    ELSE [kind |-> "turn and then rotate",
          dir |-> IF rotation > 0 THEN "right" ELSE "left",
          factor |-> RoundDiv((Abs(rotation) - 90000) * 100, 180000)]

\* rotation.toFixed(2): hundredths of a degree, halves away from zero.
toFixed2(rotation) ==
    [shown |-> TRUE,
     centi |-> IF rotation < 0 THEN -((-rotation + 5) \div 10) ELSE (rotation + 5) \div 10]

\* Lines 217-223: the truthiness test and the three checks, left to right, each
\* evaluated only when the ones before it passed.
geometryChecks(d, inputValue) ==
    LET col == allDetected(d)
               /\ isCollinear(d.red, d.pink, d.green, COLLINEARITY_THRESHOLD)
        ord == col /\ checkOrder(d.red, d.pink, d.green, COLLINEARITY_THRESHOLD)
    IN [all |-> allDetected(d), col |-> col, ord |-> ord,
        eq |-> ord /\ checkEqualIntervals(d.red, d.pink, d.green, inputValue)]

\* Lines 230-262: the heading branch, for pivot mid and rotation rot.
headingPass(g, inputValue, mid, rot) ==
    [evaluated |-> [collinear |-> TRUE, order |-> TRUE, intervals |-> TRUE],
     tolerance |-> readTolerance(inputValue),
     heading   |-> [computed |-> TRUE, middle |-> mid, rotation |-> rot],
     written   |-> TRUE,
     coords    |-> steering(rot),
     angle     |-> toFixed2(rot)]

\* Lines 217-272 given the outcome g of the checks: what the pass evaluates and
\* what it writes.  written tells whether the two texts are assigned at all
\* (they are not when all checks pass and the pointer is null).
passWith(d, inputValue, mouse, g) ==
    IF g.eq /\ ~mouseIsNull(mouse)
    THEN headingPass(g, inputValue, middleOf(d),
                     computeRotation(middleOf(d), d.red, mouse))
    ELSE [evaluated |-> [collinear |-> g.all, order |-> g.col, intervals |-> g.ord],
          tolerance |-> IF g.ord THEN readTolerance(inputValue) ELSE NaN,
          heading   |-> NoHeading,
          written   |-> ~g.eq,
          coords    |-> IF ~g.all THEN NotAllDotsText
                        ELSE IF ~g.eq THEN GeometryFailText ELSE NoText,
          angle     |-> NoAngle]

\* Lines 217-272 for marker set d, tolerance input value inputValue and pointer
\* position mouse.
framePass(d, inputValue, mouse) ==
    passWith(d, inputValue, mouse, geometryChecks(d, inputValue))

(***************************************************************************)
(* SpecFrame: the page after load, with its one image; detectDots may      *)
(* return any marker set over MarkerPoints.                                *)
(***************************************************************************)
MarkerSets ==
    [red : MarkerPoints \cup {None}, pink : MarkerPoints \cup {None},
     green : MarkerPoints \cup {None}]
MousePoints ==
    {[x |-> 0, y |-> 0], [x |-> 100, y |-> 0], [x |-> 100, y |-> 200],
     [x |-> 250, y |-> 200], [x |-> 0, y |-> 200]}

\* The assignments of one pass whose results are r (lines 214-272).
frameAssign(d, r) ==
    /\ dots' = d
    /\ ran' = TRUE
    /\ evaluated' = r.evaluated
    /\ tolerance' = r.tolerance
    /\ heading' = r.heading
    /\ coordsText' = IF r.written THEN r.coords ELSE coordsText
    /\ angleText' = IF r.written THEN r.angle ELSE angleText
    /\ UNCHANGED <<storage, tolInput, mousePos, pointerSeen>>

\* One pass over marker set d with the current tolerance input and pointer.
frameEffects(d) == frameAssign(d, framePass(d, tolInput, mousePos))

\* A pass that reschedules itself only when all three dots were found.
processFrameOn_NoRescheduleWhenMissing(d, fromRaf) ==
    /\ frameEffects(d)
    /\ rafQueue' = (IF fromRaf THEN rafQueue - 1 ELSE rafQueue)
                   + (IF allDetected(d) THEN 1 ELSE 0)

\* One pass over the marker set d that detectDots returned; fromRaf tells a
\* callback run by the animation frame from the direct call of line 332.
processFrameOn(d, fromRaf) ==
    /\ frameEffects(d)
    /\ rafQueue' = (IF fromRaf THEN rafQueue - 1 ELSE rafQueue) + 1

InitFrame ==
    /\ \E item \in ToleranceStrings \cup {NullItem} : PageLoaded(item)
    /\ RotIdle
    /\ ClusterIdle
    /\ ScriptLoaded

\* Lines 326-333: the image of start() has loaded; processFrame is called.
startImageOnload ==
    /\ ~ran
    /\ \E d \in MarkerSets : processFrameOn(d, FALSE)
    /\ UNCHANGED <<rotVars, clusterVars, appVars>>

\* The animation frame runs the registered processFrame callback.
animationFrame ==
    /\ rafQueue > 0
    /\ \E d \in MarkerSets : processFrameOn(d, TRUE)
    /\ UNCHANGED <<rotVars, clusterVars, appVars>>

\* Lines 340-344.
mousemove ==
    /\ \E p \in MousePoints : mousePos' = p
    /\ pointerSeen' = TRUE
    /\ UNCHANGED <<storage, tolInput, rafQueue, dots, evaluated, tolerance,
                   heading, coordsText, angleText, ran, rotVars, clusterVars, appVars>>

\* Lines 346-353.
touchmove ==
    /\ \E p \in MousePoints : mousePos' = p
    /\ pointerSeen' = TRUE
    /\ UNCHANGED <<storage, tolInput, rafQueue, dots, evaluated, tolerance,
                   heading, coordsText, angleText, ran, rotVars, clusterVars, appVars>>

\* Lines 13-14: the user edits the tolerance input.
toleranceChange ==
    /\ \E v \in ToleranceStrings : tolInput' = v /\ storage' = v
    /\ UNCHANGED <<mousePos, pointerSeen, rafQueue, dots, evaluated, tolerance,
                   heading, coordsText, angleText, ran, rotVars, clusterVars, appVars>>

NextFrame ==
    \/ startImageOnload
    \/ animationFrame
    \/ mousemove
    \/ touchmove
    \/ toleranceChange

SpecFrame == InitFrame /\ [][NextFrame]_vars

(***************************************************************************)
(* Colour predicates (lines 78-91) and clustering (lines 37-75)            *)
(***************************************************************************)
CLUSTER_RADIUS == 100

Max3(a, b, c) == IF a >= b /\ a >= c THEN a ELSE IF b >= c THEN b ELSE c

\* x < y * 0.5 on 8-bit channels.
LessThanHalf(x, y) == 2 * x < y

isRed(c) ==
    Max3(c.r, c.g, c.b) >= 110 /\ c.r = Max3(c.r, c.g, c.b)
    /\ LessThanHalf(c.g, c.r) /\ LessThanHalf(c.b, c.r)

isPink(c) ==
    Max3(c.r, c.g, c.b) >= 110 /\ c.r = Max3(c.r, c.g, c.b)
    /\ c.b > 80 /\ LessThanHalf(c.g, c.r)

isGreen(c) ==
    Max3(c.r, c.g, c.b) >= 110 /\ c.g = Max3(c.r, c.g, c.b)
    /\ LessThanHalf(c.r, c.g) /\ LessThanHalf(c.b, c.g)

\* testFunc(r, g, b) for the predicate named f.
Test(f, c) ==
    CASE f = "isRed"   -> isRed(c)
      [] f = "isPink"  -> isPink(c)
      [] f = "isGreen" -> isGreen(c)

\* data[index .. index + 2] for the pixel (x, y): the painted colour, or black.
PixelAt(img, x, y) ==
    IF <<x, y>> \in DOMAIN img.data THEN img.data[<<x, y>>] ELSE BlackColour

\* Line 41: distance({x, y}, centroid of cluster) < threshold, cleared of the
\* division by cluster.count.
withinThreshold(cluster, x, y, threshold) ==
    (x * cluster.count - cluster.sumX) * (x * cluster.count - cluster.sumX)
    + (y * cluster.count - cluster.sumY) * (y * cluster.count - cluster.sumY)
        < (threshold * cluster.count) * (threshold * cluster.count)

\* Lines 38-48, from cluster number i on.
RECURSIVE addFrom(_, _, _, _, _)
addFrom(cs, i, x, y, threshold) ==
    IF i > Len(cs) THEN Append(cs, [sumX |-> x, sumY |-> y, count |-> 1])
    ELSE IF withinThreshold(cs[i], x, y, threshold)
    THEN [cs EXCEPT ![i] = [sumX |-> @.sumX + x, sumY |-> @.sumY + y,
                            count |-> @.count + 1]]
    ELSE addFrom(cs, i + 1, x, y, threshold)

addToClusters(cs, x, y, threshold) == addFrom(cs, 1, x, y, threshold)

\* The pixels the loops of lines 57-58 visit and testFunc accepts.
sampledMatches(img, f) ==
    {p \in (0..(img.width - 1)) \X (0..(img.height - 1)) :
        p[1] % 2 = 0 /\ p[2] % 2 = 0 /\ Test(f, PixelAt(img, p[1], p[2]))}

\* The first of a set of pixels in scan order: rows top to bottom, columns left
\* to right.
firstInScan(ps) ==
    CHOOSE p \in ps : \A q \in ps : p[2] < q[2] \/ (p[2] = q[2] /\ p[1] <= q[1])

\* Lines 57-67 over the matching pixels ps that are still to be visited.
RECURSIVE scanRest(_, _)
scanRest(ps, cs) ==
    IF ps = {} THEN cs
    ELSE scanRest(ps \ {firstInScan(ps)},
                  addToClusters(cs, firstInScan(ps)[1], firstInScan(ps)[2], CLUSTER_RADIUS))

\* Lines 54-67.
scanClusters(img, f) == scanRest(sampledMatches(img, f), <<>>)

\* Lines 70-73 from cluster number i on, best being the choice so far; here a
\* later cluster of the same count replaces the choice.
RECURSIVE bestFrom_LastOnTies(_, _, _)
bestFrom_LastOnTies(cs, i, best) ==
    IF i > Len(cs) THEN best
    ELSE bestFrom_LastOnTies(cs, i + 1, IF cs[i].count >= best.count THEN cs[i] ELSE best)

\* Lines 70-73 from cluster number i on, best being the choice so far.
RECURSIVE bestFrom(_, _, _)
bestFrom(cs, i, best) ==
    IF i > Len(cs) THEN best
    ELSE bestFrom(cs, i + 1, IF cs[i].count > best.count THEN cs[i] ELSE best)

\* Lines 68-74: null, or the centroid (sumX / count, sumY / count) kept as the
\* two numerators and the common denominator.
largestCentroid(cs) ==
    IF Len(cs) = 0 THEN [some |-> FALSE, sumX |-> 0, sumY |-> 0, count |-> 1]
    ELSE [some |-> TRUE, sumX |-> bestFrom(cs, 1, cs[1]).sumX,
          sumY |-> bestFrom(cs, 1, cs[1]).sumY,
          count |-> bestFrom(cs, 1, cs[1]).count]

clusterColor(img, f) == largestCentroid(scanClusters(img, f))

(***************************************************************************)
(* SpecCluster: clusterColor applied to every buffer that paints the       *)
(* pixels of PaintedPixels with colours of Palette, and every predicate.   *)
(***************************************************************************)
BufferWidth == 204
BufferHeight == 4
PaintedPixels == {<<0, 0>>, <<1, 0>>, <<2, 0>>, <<100, 0>>, <<102, 0>>, <<202, 2>>}
Palette == {BlackColour, [r |-> 255, g |-> 0, b |-> 0], [r |-> 180, g |-> 30, b |-> 100]}
TestFuncs == {"isRed", "isPink", "isGreen"}

InitCluster ==
    /\ PageLoaded(NullItem)
    /\ RotIdle
    /\ \E data \in [PaintedPixels -> Palette] :
          imageData = [width |-> BufferWidth, height |-> BufferHeight, data |-> data]
    /\ testFunc \in TestFuncs
    /\ clusters = <<>>
    /\ centroid = [some |-> FALSE, sumX |-> 0, sumY |-> 0, count |-> 1]
    /\ clusterPc = "in"
    /\ ScriptLoaded

applyClusterColor ==
    /\ clusterPc = "in"
    /\ clusters' = scanClusters(imageData, testFunc)
    /\ centroid' = clusterColor(imageData, testFunc)
    /\ clusterPc' = "done"
    /\ UNCHANGED <<imageData, testFunc, frameVars, rotVars, appVars>>

NextCluster == applyClusterColor

SpecCluster == InitCluster /\ [][NextCluster]_vars

\* The number of pixels accumulated in clusters cs[1..n].
RECURSIVE CountUpTo(_, _)
CountUpTo(cs, n) == IF n = 0 THEN 0 ELSE cs[n].count + CountUpTo(cs, n - 1)

\* C3: clusterColor returns null exactly when no sampled pixel (even row, even
\* column) satisfies the predicate; otherwise it returns the centroid
\* (sumX / count, sumY / count) of a cluster of maximal count, the earliest
\* created among those of maximal count; the clusters hold every sampled
\* matching pixel once.
C3_LargestClusterFirstOnTies ==
    clusterPc = "done" =>
        /\ ~centroid.some <=>
              (\A x \in 0..(imageData.width - 1), y \in 0..(imageData.height - 1) :
                  (x % 2 = 0 /\ y % 2 = 0) => ~Test(testFunc, PixelAt(imageData, x, y)))
        /\ CountUpTo(clusters, Len(clusters))
              = Cardinality(sampledMatches(imageData, testFunc))
        /\ centroid.some =>
              \E i \in 1..Len(clusters) :
                  /\ \A j \in 1..Len(clusters) : clusters[j].count <= clusters[i].count
                  /\ \A j \in 1..(i - 1) : clusters[j].count < clusters[i].count
                  /\ centroid.sumX * clusters[i].count = clusters[i].sumX * centroid.count
                  /\ centroid.sumY * clusters[i].count = clusters[i].sumY * centroid.count

\* Two clusters of the same, maximal count were built and the centroid of the
\* first was returned.
C3_Witness ==
    /\ clusterPc = "done"
    /\ Len(clusters) >= 2
    /\ clusters[1].count = clusters[2].count
    /\ \A j \in 1..Len(clusters) : clusters[j].count <= clusters[1].count
    /\ centroid.some
    /\ centroid.sumX * clusters[1].count = clusters[1].sumX * centroid.count

\* Only unsampled pixels match, and null was returned.
C3_WitnessUnsampled ==
    /\ clusterPc = "done"
    /\ ~centroid.some
    /\ \E p \in DOMAIN imageData.data : Test(testFunc, imageData.data[p])

(***************************************************************************)
(* Claims about one pass (SpecFrame)                                       *)
(***************************************************************************)
SteeringKinds == {"rotate", "turn and then rotate"}

\* The three checks as section 4.4 of the specification states them, for the
\* marker set of the last pass and the tolerance tol (hundredths, or NaN).
CollinearOK(d) ==
    pointLineDistance(d.pink, d.red, d.green) < COLLINEARITY_THRESHOLD * Centi
OrderOK(d) ==
    Abs(distance(d.red, d.pink) + distance(d.pink, d.green) - distance(d.red, d.green))
        < COLLINEARITY_THRESHOLD * Centi
InBand(x, dRP, lo, hi) == x * Centi > dRP * lo /\ x * Centi < dRP * hi
IntervalsOK(d, tol) ==
    /\ ~tol.nan
    /\ InBand(distance(d.pink, d.green), distance(d.red, d.pink),
              Centi - tol.v, Centi + tol.v)
    /\ InBand(distance(d.red, d.green), distance(d.red, d.pink),
              2 * (Centi - tol.v), 2 * (Centi + tol.v))

\* C1: a pass over a frame in which red, pink or green is absent reports "Not
\* all dots detected.", evaluates none of the three geometry checks, computes no
\* heading, and leaves a processFrame callback registered for the next tick.
C1_MissingMarkerShortCircuit ==
    (ran /\ ~allDetected(dots)) =>
        /\ coordsText = NotAllDotsText
        /\ angleText = NoAngle
        /\ evaluated = NoChecks
        /\ ~heading.computed
        /\ rafQueue >= 1

\* A pass has run on a frame with red and green found and pink absent.
C1_Witness ==
    /\ ran
    /\ dots.red.some /\ ~dots.pink.some /\ dots.green.some
    /\ coordsText = NotAllDotsText
    /\ rafQueue = 1

\* C4: for the rotation of a pass that computed a heading: the text is the
\* simple one ("rotate") exactly when |rotation| < 90 and the combined one
\* otherwise; the factor is |rotation|/180*100, resp. (|rotation|-90)/180*100,
\* rounded to the nearest integer with halves up; the direction is right exactly
\* when rotation > 0 and left otherwise; the factor is in 0..100.
C4_SteeringClassification ==
    heading.computed =>
        LET r == heading.rotation
            a == Abs(r)
            x == IF a < 90000 THEN a ELSE a - 90000
        IN /\ r > -180000 /\ r <= 180000
           /\ coordsText.kind = (IF a < 90000 THEN "rotate" ELSE "turn and then rotate")
           /\ coordsText.dir = (IF r > 0 THEN "right" ELSE "left")
           /\ coordsText.factor \in 0..100
           /\ 1800 * coordsText.factor - 900 <= x
           /\ x < 1800 * coordsText.factor + 900

\* A heading with rotation 0 has been computed and reported as left.
C4_Witness ==
    /\ heading.computed
    /\ heading.rotation = 0
    /\ coordsText = [kind |-> "rotate", dir |-> "left", factor |-> 0]

\* A combined heading to the right has been computed.
C4_WitnessCombined ==
    /\ heading.computed
    /\ heading.rotation >= 90000
    /\ coordsText.kind = "turn and then rotate"
    /\ coordsText.dir = "right"

\* The first check that fails for marker set d under tolerance tol.
FirstFailing(d, tol) ==
    IF ~CollinearOK(d) THEN "NotCollinear"
    ELSE IF ~OrderOK(d) THEN "WrongOrder"
    ELSE IF ~IntervalsOK(d, tol) THEN "UnequalIntervals"
    ELSE "Valid"

\* The reasons a reported text stands for: the else branch of lines 264-267
\* writes the same text whichever check failed.
ReasonsReported(text) ==
    IF text = GeometryFailText THEN {"NotCollinear", "WrongOrder", "UnequalIntervals"}
    ELSE IF text = NotAllDotsText THEN {"InsufficientMarkers"}
    ELSE {"Valid"}

C5_WitnessWrongOrder ==
    /\ ran /\ allDetected(dots)
    /\ FirstFailing(dots, tolerance) = "WrongOrder"
    /\ coordsText = GeometryFailText

\* C6 as stated: before the first mousemove or touchmove, no pass computes a
\* heading or writes a rotation or steering text.
C6_NoHeadingBeforePointer ==
    ~pointerSeen =>
        /\ ~heading.computed
        /\ ~angleText.shown
        /\ coordsText.kind \notin SteeringKinds

\* C7 as stated: with nothing persisted, or with an empty or non-numeric
\* tolerance input, the equal-interval check accepts exactly the marker sets
\* within the bands of tolerance 0.8.
C7_DefaultToleranceUsed ==
    (evaluated.intervals /\ (storage = NullItem \/ tolerance.nan)) =>
        (heading.computed <=> IntervalsOK(dots, Num(intervallTolerance)))

(***************************************************************************)
(* SpecApp: the page with its buttons, file input, camera and canvas.      *)
(* The canvas is a row of regions, each farther than CLUSTER_RADIUS from   *)
(* the next and holding as many sampled pixels of its colour as any other. *)
(***************************************************************************)
MaxStreams == 2
MaxChains == 3
MaxLoading == 2

\* The colours drawDetections and line 227 fill their circles with.
CssRed == [r |-> 255, g |-> 0, b |-> 0]
CssPink == [r |-> 255, g |-> 192, b |-> 203]
CssGreen == [r |-> 0, g |-> 128, b |-> 0]
DeepPink == [r |-> 180, g |-> 30, b |-> 100]

\* The x coordinate of the centre of region i, and the region of a point.
RegionX(i) == (i - 1) * CLUSTER_RADIUS
RegionOf(p) == p.x \div CLUSTER_RADIUS + 1

\* Line 211 and lines 317, 331: drawImage(img, 0, 0), unscaled.
drawImageAtOrigin(cv, picture) ==
    [i \in 1..Len(cv) |->
        IF i <= Len(picture) THEN Cell(picture[i], FALSE) ELSE cv[i]]

\* Line 209: drawImage(video, 0, 0, canvas.width, canvas.height); nothing is
\* drawn while the video element has no frame.
drawVideo(cv, ready, frame) ==
    IF ready = "data"
    THEN [i \in 1..Len(cv) |->
            Cell(frame[((i - 1) * Len(frame)) \div Len(cv) + 1], FALSE)]
    ELSE cv

\* Lines 208-212.
drawSource(cv, uv, ready, frame, img) ==
    IF uv THEN drawVideo(cv, ready, frame)
    ELSE IF img.some THEN drawImageAtOrigin(cv, img.picture)
    ELSE cv

\* clusterColor over a row of regions: every region of a matching colour is a
\* cluster of its own, all of one count, so the first in scan order is returned.
regionCentroid(buf, f) ==
    IF \E i \in 1..Len(buf) : Test(f, buf[i].colour)
    THEN Some(RegionX(CHOOSE i \in 1..Len(buf) :
                        /\ Test(f, buf[i].colour)
                        /\ \A j \in 1..(i - 1) : ~Test(f, buf[j].colour)), 0)
    ELSE None

\* Lines 199-204.
detectDots(buf) ==
    [red |-> regionCentroid(buf, "isRed"), pink |-> regionCentroid(buf, "isPink"),
     green |-> regionCentroid(buf, "isGreen")]

\* Lines 147-151 for one dot.
drawDot(cv, dot, colour) ==
    IF dot.some THEN [cv EXCEPT ![RegionOf(dot)] = Cell(colour, TRUE)] ELSE cv

drawDetections(cv, d) ==
    drawDot(drawDot(drawDot(cv, d.red, CssRed), d.pink, CssPink), d.green, CssGreen)

\* Lines 224-239 when the checks g passed: of what is drawn, the circle of line
\* 227 alone carries a colour that a colour predicate accepts.
drawValid(cv, d, g) == IF g.eq THEN drawDot(cv, d.pink, DeepPink) ELSE cv

\* The canvas after lines 215-239, buf being what line 213 read.
drawOverlays(buf, inputValue) ==
    drawValid(drawDetections(buf, detectDots(buf)), detectDots(buf),
              geometryChecks(detectDots(buf), inputValue))

\* The canvas after n passes in a row (lines 208-239, n times).
RECURSIVE canvasAfter(_, _, _, _, _, _, _)
canvasAfter(cv, n, uv, ready, frame, img, inputValue) ==
    IF n = 0 THEN cv
    ELSE canvasAfter(drawOverlays(drawSource(cv, uv, ready, frame, img), inputValue),
                     n - 1, uv, ready, frame, img, inputValue)

\* n >= 1 calls of processFrame in a row, the first on canvas cv: the canvas
\* they leave, the buffer the last of them read, and its assignments.
processFrames(cv, n, uv, ready, frame, img) ==
    /\ canvas' = canvasAfter(cv, n, uv, ready, frame, img, tolInput)
    /\ frameBuffer' = drawSource(canvasAfter(cv, n - 1, uv, ready, frame, img, tolInput),
                                 uv, ready, frame, img)
    /\ frameEffects(detectDots(frameBuffer'))

\* Lines 298-305.
stopVideo ==
    /\ useVideo' = FALSE
    /\ tracks' = IF videoStream # 0 THEN [tracks EXCEPT ![videoStream] = "ended"]
                 ELSE tracks
    /\ srcObject' = IF videoStream # 0 THEN 0 ELSE srcObject
    /\ readyState' = IF videoStream # 0 THEN "nothing" ELSE readyState
    /\ statusText' = "Video stopped."
    /\ stopHandled' = TRUE

InitApp ==
    /\ PageLoaded(NullItem)
    /\ RotIdle
    /\ ClusterIdle
    /\ ScriptLoaded

\* Line 357 and lines 279-283: startVideo runs up to its await.
startVideoClick ==
    /\ pendingGUM + Len(tracks) < MaxStreams
    /\ pendingGUM' = pendingGUM + 1
    /\ stopHandled' = FALSE
    /\ UNCHANGED <<useVideo, videoStream, tracks, srcObject, metaListeners,
                   readyState, videoFrame, loading, selectedImage, canvas,
                   frameBuffer, statusText, frameVars, rotVars, clusterVars>>

\* Lines 281-291: the promise of getUserMedia is fulfilled with a new stream.
getUserMediaResolved ==
    /\ pendingGUM > 0
    /\ pendingGUM' = pendingGUM - 1
    /\ tracks' = Append(tracks, "live")
    /\ videoStream' = Len(tracks) + 1
    /\ srcObject' = Len(tracks) + 1
    /\ readyState' = "nothing"
    /\ useVideo' = TRUE
    /\ metaListeners' = metaListeners + 1
    /\ statusText' = "Video started."
    /\ UNCHANGED <<videoFrame, loading, selectedImage, canvas, frameBuffer,
                   stopHandled, frameVars, rotVars, clusterVars>>

\* Lines 292-295: the promise is rejected.
getUserMediaRejected ==
    /\ pendingGUM > 0
    /\ pendingGUM' = pendingGUM - 1
    /\ statusText' = "Error accessing webcam."
    /\ UNCHANGED <<useVideo, videoStream, tracks, srcObject, metaListeners,
                   readyState, videoFrame, loading, selectedImage, canvas,
                   frameBuffer, stopHandled, frameVars, rotVars, clusterVars>>

\* Lines 287-290: the video element fires loadedmetadata and every listener
\* added so far resizes the canvas and calls processFrame; the canvas and the
\* buffer are those the last listener leaves.
loadedmetadata ==
    /\ srcObject # 0
    /\ tracks[srcObject] = "live"
    /\ readyState = "nothing"
    /\ metaListeners > 0
    /\ rafQueue + metaListeners <= MaxChains
    /\ readyState' = "metadata"
    /\ processFrames(resizeCanvas(VideoWidth), 1, useVideo, "metadata", videoFrame,
                     selectedImage)
    /\ rafQueue' = rafQueue + metaListeners
    /\ UNCHANGED <<useVideo, videoStream, tracks, srcObject, pendingGUM,
                   metaListeners, videoFrame, loading, selectedImage, statusText,
                   stopHandled, rotVars, clusterVars>>

\* The video element has its first frame.
loadeddata ==
    /\ readyState = "metadata"
    /\ readyState' = "data"
    /\ videoFrame' \in VideoPictures
    /\ UNCHANGED <<useVideo, videoStream, tracks, srcObject, pendingGUM,
                   metaListeners, loading, selectedImage, canvas, frameBuffer,
                   statusText, stopHandled, frameVars, rotVars, clusterVars>>

\* Lines 358-361: stopVideo(), then start() sets the src of a new image.
stopVideoClick ==
    /\ Len(loading) < MaxLoading
    /\ stopVideo
    /\ loading' = Append(loading, DefaultPicture)
    /\ UNCHANGED <<videoStream, pendingGUM, metaListeners, videoFrame,
                   selectedImage, canvas, frameBuffer, frameVars, rotVars,
                   clusterVars>>

\* Lines 308-322 up to the load: a file was chosen.
fileInputChange ==
    /\ Len(loading) < MaxLoading
    /\ \E picture \in FilePictures : loading' = Append(loading, picture)
    /\ UNCHANGED <<useVideo, videoStream, tracks, srcObject, pendingGUM,
                   metaListeners, readyState, videoFrame, selectedImage, canvas,
                   frameBuffer, statusText, stopHandled, frameVars, rotVars,
                   clusterVars>>

\* loading without its k-th image.
Without(seq, k) == SubSeq(seq, 1, k - 1) \o SubSeq(seq, k + 1, Len(seq))

\* Lines 312-319 and 326-333: one of the images has loaded.
imageOnload ==
    /\ rafQueue < MaxChains
    /\ stopVideo
    /\ \E k \in 1..Len(loading) :
          /\ loading' = Without(loading, k)
          /\ selectedImage' = [some |-> TRUE, picture |-> loading[k]]
          /\ processFrames(drawImageAtOrigin(resizeCanvas(Len(loading[k])), loading[k]),
                           1, useVideo', readyState', videoFrame, selectedImage')
    /\ rafQueue' = rafQueue + 1
    /\ UNCHANGED <<videoStream, pendingGUM, metaListeners, videoFrame, rotVars,
                   clusterVars>>

\* An image failed to load; it has no error handler.
imageError ==
    /\ \E k \in 1..Len(loading) : loading' = Without(loading, k)
    /\ UNCHANGED <<useVideo, videoStream, tracks, srcObject, pendingGUM,
                   metaListeners, readyState, videoFrame, selectedImage, canvas,
                   frameBuffer, statusText, stopHandled, frameVars, rotVars,
                   clusterVars>>

\* An animation frame: every callback registered at line 274 runs, and each
\* registers itself again.
animationFrameApp ==
    /\ rafQueue > 0
    /\ processFrames(canvas, rafQueue, useVideo, readyState, videoFrame, selectedImage)
    /\ UNCHANGED <<rafQueue, useVideo, videoStream, tracks, srcObject, pendingGUM,
                   metaListeners, readyState, videoFrame, loading, selectedImage,
                   statusText, stopHandled, rotVars, clusterVars>>

NextApp ==
    \/ startVideoClick
    \/ getUserMediaResolved
    \/ getUserMediaRejected
    \/ loadedmetadata
    \/ loadeddata
    \/ stopVideoClick
    \/ fileInputChange
    \/ imageOnload
    \/ imageError
    \/ animationFrameApp

SpecApp == InitApp /\ [][NextApp]_vars

\* C8: at most one processFrame callback is registered for any animation
\* frame.
C8_SingleChain == rafQueue <= 1

\* C9: the buffer read by a pass holds no region painted by an overlay circle
\* whose colour a colour predicate accepts.
C9_NoOverlayReadBack ==
    \A i \in 1..Len(frameBuffer) :
        frameBuffer[i].overlay =>
            \A f \in TestFuncs : ~Test(f, frameBuffer[i].colour)

\* C10: once stopVideo has run after the latest start click and no
\* getUserMedia request is pending, every stream acquired has ended and
\* useVideo is false.
C10_DeviceReleased ==
    (stopHandled /\ pendingGUM = 0) =>
        /\ \A i \in 1..Len(tracks) : tracks[i] = "ended"
        /\ ~useVideo

====
